---- MODULE Spec2Model ----
(***************************************************************************)
(* GovernanceManager (Governance_Compliance_Project/main.py) and the       *)
(* dashboard handlers that call it (dashboard.py).                         *)
(*                                                                         *)
(* Units.  Timestamps are whole seconds counted from 2024-04-04T12:00:00,  *)
(* so int(time.time()) is the timestamp itself and (a - b).days is         *)
(* (a - b) \div 86400.  automation_level is kept in tenths (0.3 is 3,      *)
(* 1.0 is 10).  compliance_drift_factor is the pair [n, e] standing for    *)
(* n / 10^e, so that a product with 0.7 is [7n, e+1].                      *)
(***************************************************************************)
EXTENDS Integers, Sequences, FiniteSets, TLC

VARIABLES controls, incidents, alerts, audit_log, now, monitor, threads

vars == <<controls, incidents, alerts, audit_log, now, monitor, threads>>

(***************************************************************************)
(* Bounds of the model.                                                    *)
(***************************************************************************)
MaxRecords == 3
MaxSec == 0
MaxPasses == 2

(***************************************************************************)
(* Enumerations and the seed catalog.                                      *)
(***************************************************************************)
COMPLIANT == "compliant"
NON_COMPLIANT == "non_compliant"
IN_PROGRESS == "in_progress"
NOT_ASSESSED == "not_assessed"
ComplianceStatus == {COMPLIANT, NON_COMPLIANT, IN_PROGRESS, NOT_ASSESSED}

LOW == "low"
MEDIUM == "medium"
HIGH == "high"
CRITICAL == "critical"
RiskLevel == {LOW, MEDIUM, HIGH, CRITICAL}

SecondsPerDay == 86400

\* Optional[datetime]: <<>> is None, <<t>> is the timestamp t.
None == <<>>
Some(t) == <<t>>

InSeq(x, s) == \E i \in 1..Len(s) : s[i] = x

\* The time of construction: every last_assessment_date is taken from it.
StartTime == 0

ControlRequirement(std, st, risk, review, drift, auto, days, count) ==
    [standard |-> std, status |-> st, risk_level |-> risk,
     next_review_date |-> review, notes |-> "",
     last_assessment_date |-> Some(StartTime - days * SecondsPerDay),
     compliance_drift_factor |-> drift, incident_count |-> count,
     automation_level |-> auto]

\* next_review_date is a string: parses says whether it has the form
\* "%Y-%m-%d", and date is then the second at which that day begins:
\* 2024-04-05 is day 1, 2024-05-15 is day 41, and so on; the engine was
\* constructed at noon of day 0.
ReviewDate(day) ==
    [parses |-> TRUE,
     date |-> StartTime + day * SecondsPerDay - SecondsPerDay \div 2]

\* datetime.datetime.strptime(s, "%Y-%m-%d"): None stands for ValueError.
strptime(s) == IF s.parses THEN Some(s.date) ELSE None

iso27001_controls == <<"A.5.1.1", "A.6.1.1", "A.8.1.1">>

load_iso27001_controls ==
    [c \in {"A.5.1.1", "A.6.1.1", "A.8.1.1"} |->
        CASE c = "A.5.1.1" ->
               ControlRequirement("ISO27001", COMPLIANT, HIGH,
                   ReviewDate(286), [n |-> 10, e |-> 2], 3, 30, 0)
          [] c = "A.6.1.1" ->
               ControlRequirement("ISO27001", IN_PROGRESS, HIGH,
                   ReviewDate(303), [n |-> 15, e |-> 2], 2, 15, 0)
          [] c = "A.8.1.1" ->
               ControlRequirement("ISO27001", COMPLIANT, MEDIUM,
                   ReviewDate(97), [n |-> 20, e |-> 2], 8, 5, 0)]

pci_dss_controls == <<"PCI.1.1", "PCI.2.1", "PCI.3.4">>

load_pci_dss_controls ==
    [c \in {"PCI.1.1", "PCI.2.1", "PCI.3.4"} |->
        CASE c = "PCI.1.1" ->
               ControlRequirement("PCI_DSS", COMPLIANT, CRITICAL,
                   ReviewDate(1), [n |-> 30, e |-> 2], 7, 20, 0)
          [] c = "PCI.2.1" ->
               ControlRequirement("PCI_DSS", NON_COMPLIANT, HIGH,
                   ReviewDate(41), [n |-> 5, e |-> 2], 9, 3, 2)
          [] c = "PCI.3.4" ->
               ControlRequirement("PCI_DSS", IN_PROGRESS, CRITICAL,
                   ReviewDate(58), [n |-> 25, e |-> 2], 4, 10, 0)]

\* all_controls = self.iso27001_controls + self.pci_dss_controls
all_controls == iso27001_controls \o pci_dss_controls

ControlIds == {all_controls[i] : i \in 1..Len(all_controls)}

\* (code, title, affected control ids, severity)
IncidentType(code, title, affected, sev) ==
    [code |-> code, title |-> title, affected_controls |-> affected,
     severity |-> sev]

simulate_incident_types ==
    << IncidentType("SEC-001", "Failed Password Audit", <<"PCI.2.1">>, HIGH),
       IncidentType("SEC-002", "Firewall Misconfiguration", <<"PCI.1.1">>, CRITICAL),
       IncidentType("SEC-003", "Asset Discovery Gap", <<"A.8.1.1">>, MEDIUM),
       IncidentType("SEC-004", "Policy Violation", <<"A.5.1.1">>, HIGH) >>

force_incident_types ==
    << IncidentType("SEC-001", "Failed Password Audit", <<"PCI.2.1">>, HIGH),
       IncidentType("SEC-002", "Firewall Misconfiguration", <<"PCI.1.1">>, CRITICAL),
       IncidentType("SEC-003", "Asset Discovery Gap", <<"A.8.1.1">>, MEDIUM),
       IncidentType("SEC-004", "Policy Violation", <<"A.5.1.1">>, HIGH),
       IncidentType("SEC-005", "Unauthorized Access Detected", <<"A.6.1.1">>, CRITICAL),
       IncidentType("SEC-006", "Encryption Key Exposure", <<"PCI.3.4">>, CRITICAL) >>

(***************************************************************************)
(* The engine's data as one value, so that the methods are operators from  *)
(* an engine to an engine and compose the way the calls do.                *)
(***************************************************************************)
Engine == [controls |-> controls, incidents |-> incidents,
           alerts |-> alerts, audit_log |-> audit_log]

\* f"{incident_id}-{int(time.time())}"
incident_id_of(code, t) == <<code, t>>

ComplianceIncident(type, t, description) ==
    [incident_id |-> incident_id_of(type.code, t), title |-> type.title,
     description |-> description,
     affected_controls |-> type.affected_controls, severity |-> type.severity,
     occurrence_time |-> t, resolution_time |-> None]

\* f"ALT-{int(time.time())}-{len(self.alerts)}"
alert_id_of(t, n) == <<"ALT", t, n>>

\* The dictionary built by _create_alert; n is len(self.alerts) as read.
new_alert(t, n, title, message, severity) ==
    [id |-> alert_id_of(t, n), title |-> title, message |-> message,
     severity |-> severity, timestamp |-> t, acknowledged |-> FALSE]

create_alert(E, t, title, message, severity) ==
    [E EXCEPT !.alerts =
        Append(@, new_alert(t, Len(E.alerts), title, message, severity))]

(***************************************************************************)
(* update_control_status                                                   *)
(***************************************************************************)
\* An audit entry that reads the old status after the assignment.
status_update_entry_late(t, control_id, old_status, status, notes) ==
    [action |-> "status_update", control_id |-> control_id,
     old_status |-> status, new_status |-> status, notes |-> notes]

status_update_entry(t, control_id, old_status, status, notes) ==
    [action |-> "status_update", control_id |-> control_id,
     old_status |-> old_status, new_status |-> status, notes |-> notes]

\* An update that treats a manual "compliant" as an assessment made now.
update_control_status_assessing(E, t, control_id, status, notes) ==
    IF control_id \in ControlIds
    THEN LET old_status == E.controls[control_id].status
         IN [E |-> [E EXCEPT !.controls[control_id].status = status,
                             !.controls[control_id].notes = notes,
                             !.controls[control_id].last_assessment_date =
                                 IF status = COMPLIANT THEN Some(t) ELSE @,
                             !.audit_log = Append(@,
                                 status_update_entry(t, control_id, old_status,
                                                     status, notes))],
             ret |-> TRUE]
    ELSE [E |-> E, ret |-> FALSE]

update_control_status(E, t, control_id, status, notes) ==
    IF control_id \in ControlIds
    THEN LET old_status == E.controls[control_id].status
         IN [E |-> [E EXCEPT !.controls[control_id].status = status,
                             !.controls[control_id].notes = notes,
                             !.audit_log = Append(@,
                                 status_update_entry(t, control_id, old_status,
                                                     status, notes))],
             ret |-> TRUE]
    ELSE [E |-> E, ret |-> FALSE]

(***************************************************************************)
(* _get_standard_summary, get_compliance_summary                           *)
(***************************************************************************)
count_status(ctl, ids, st) ==
    Cardinality({i \in 1..Len(ids) : ctl[ids[i]].status = st})

\* A percentage cut off after two decimal places instead of rounded.
compliance_percentage_cut(compliant, total) ==
    IF total > 0 THEN (compliant * 10000) \div total ELSE 0

\* round(compliant / total * 100, 2) in hundredths of a percent; 0 when the
\* list is empty.
compliance_percentage(compliant, total) ==
    IF total > 0 THEN (2 * compliant * 10000 + total) \div (2 * total) ELSE 0

summary_of(standard, total, compliant, non_compliant, in_progress, not_assessed) ==
    [standard |-> standard, total_controls |-> total, compliant |-> compliant,
     non_compliant |-> non_compliant, in_progress |-> in_progress,
     not_assessed |-> not_assessed,
     compliance_percentage |-> compliance_percentage(compliant, total)]

get_standard_summary(ctl, ids, standard) ==
    summary_of(standard, Len(ids),
               count_status(ctl, ids, COMPLIANT),
               count_status(ctl, ids, NON_COMPLIANT),
               count_status(ctl, ids, IN_PROGRESS),
               count_status(ctl, ids, NOT_ASSESSED))

(***************************************************************************)
(* _apply_incident_impact                                                  *)
(***************************************************************************)
\* An impact that also takes an in_progress control to non_compliant.
impact_on_control_strict(E, t, incident, cid) ==
    IF InSeq(cid, incident.affected_controls)
    THEN LET E1 == [E EXCEPT !.controls[cid].incident_count = @ + 1]
         IN IF E1.controls[cid].status \in {COMPLIANT, IN_PROGRESS}
            THEN create_alert(
                     [E1 EXCEPT !.controls[cid].status = NON_COMPLIANT],
                     t, <<"Incident impact", cid>>,
                     <<"Control affected by incident", incident.title>>,
                     incident.severity)
            ELSE E1
    ELSE E

\* An impact that counts an incident only when it changes the status.
impact_on_control_once(E, t, incident, cid) ==
    IF InSeq(cid, incident.affected_controls) /\ E.controls[cid].status = COMPLIANT
    THEN create_alert(
             [E EXCEPT !.controls[cid].status = NON_COMPLIANT,
                       !.controls[cid].incident_count = @ + 1],
             t, <<"Incident impact", cid>>,
             <<"Control affected by incident", incident.title>>,
             incident.severity)
    ELSE E

\* The body of the loop for one control of all_controls.
impact_on_control(E, t, incident, cid) ==
    IF InSeq(cid, incident.affected_controls)
    THEN LET E1 == [E EXCEPT !.controls[cid].incident_count = @ + 1]
         IN IF E1.controls[cid].status = COMPLIANT
            THEN create_alert(
                     [E1 EXCEPT !.controls[cid].status = NON_COMPLIANT],
                     t, <<"Incident impact", cid>>,
                     <<"Control affected by incident", incident.title>>,
                     incident.severity)
            ELSE E1
    ELSE E

RECURSIVE apply_incident_impact_from(_, _, _, _)
apply_incident_impact_from(E, t, incident, i) ==
    IF i > Len(all_controls) THEN E
    ELSE apply_incident_impact_from(
             impact_on_control(E, t, incident, all_controls[i]),
             t, incident, i + 1)

apply_incident_impact(E, t, incident) ==
    apply_incident_impact_from(E, t, incident, 1)

\* An incident appended to the ledger with its impact left out.
record_incident_only(E, t, incident) ==
    [E EXCEPT !.incidents = Append(@, incident)]

\* self.incidents.append(incident); self._apply_incident_impact(incident)
record_incident(E, t, incident) ==
    apply_incident_impact([E EXCEPT !.incidents = Append(@, incident)],
                          t, incident)

(***************************************************************************)
(* force_incident, _simulate_incidents                                     *)
(***************************************************************************)
force_incident(E, t, type) ==
    LET incident == ComplianceIncident(type, t, "Manually triggered incident")
    IN [E |-> record_incident(E, t, incident), ret |-> incident]

\* choice is 0 when random.random() < 0.15 fails, and otherwise the index
\* random.choice picks in incident_types.
simulate_incidents(E, t, choice) ==
    IF choice # 0
    THEN record_incident(E, t,
             ComplianceIncident(simulate_incident_types[choice], t,
                                "Automated incident simulation"))
    ELSE E


(***************************************************************************)
(* _check_compliance_drift                                                 *)
(***************************************************************************)
\* (datetime.datetime.now() - control.last_assessment_date).days
days_since_assessment(c, t) == (t - c.last_assessment_date[1]) \div SecondsPerDay

\* drift_probability * 0.3 > 0: random.random(), uniform on [0, 1), can fall
\* below the threshold.  The threshold is
\* drift_factor * (days / 30) * (1 - automation_level) * 0.3.
drift_possible(c, t) ==
    c.compliance_drift_factor.n * days_since_assessment(c, t)
        * (10 - c.automation_level) > 0

\* drift_probability * 0.3 >= 1: every draw falls below the threshold.
drift_certain(c, t) ==
    c.compliance_drift_factor.n * days_since_assessment(c, t)
        * (10 - c.automation_level) * 3
      >= 30 * 10 * 10 * (10 ^ c.compliance_drift_factor.e)

\* The controls whose draw of random.random() may fall below a threshold
\* smaller than 1.
DriftInputs == {"PCI.1.1"}

drift_examined(c) == c.status = COMPLIANT /\ c.last_assessment_date # None

\* A drift that also takes the time of the check as the last assessment.
drift_on_control_assessed(E, t, cid, draw) ==
    LET c == E.controls[cid]
    IN IF drift_examined(c) /\ draw
       THEN create_alert(
                [E EXCEPT !.controls[cid].status = IN_PROGRESS,
                          !.controls[cid].last_assessment_date = Some(t)],
                t, <<"Compliance drift detected", cid>>,
                <<"drifted from compliant status due to time decay", cid>>,
                c.risk_level)
       ELSE E

\* A drift check that restores an in_progress control to compliant.
drift_on_control_restoring(E, t, cid, draw) ==
    LET c == E.controls[cid]
    IN IF drift_examined(c) /\ draw
       THEN create_alert([E EXCEPT !.controls[cid].status = IN_PROGRESS],
                         t, <<"Compliance drift detected", cid>>,
                         <<"drifted from compliant status due to time decay", cid>>,
                         c.risk_level)
       ELSE IF c.status = IN_PROGRESS
            THEN [E EXCEPT !.controls[cid].status = COMPLIANT]
            ELSE E

\* A drift that changes the status and raises no alert.
drift_on_control_silent(E, t, cid, draw) ==
    IF drift_examined(E.controls[cid]) /\ draw
    THEN [E EXCEPT !.controls[cid].status = IN_PROGRESS]
    ELSE E

\* The body of the loop for one control; draw is the outcome of
\* random.random() < drift_probability * 0.3.
drift_on_control(E, t, cid, draw) ==
    LET c == E.controls[cid]
    IN IF drift_examined(c) /\ draw
       THEN create_alert([E EXCEPT !.controls[cid].status = IN_PROGRESS],
                         t, <<"Compliance drift detected", cid>>,
                         <<"drifted from compliant status due to time decay", cid>>,
                         c.risk_level)
       ELSE E

\* The draws random.random() can produce for the controls as they stand: D
\* is the set of controls whose draw falls below the threshold.
DriftSure(E, t) ==
    {cid \in ControlIds :
        drift_examined(E.controls[cid]) /\ drift_certain(E.controls[cid], t)}

DriftMaybe(E, t) ==
    {cid \in DriftInputs :
        drift_examined(E.controls[cid]) /\ drift_possible(E.controls[cid], t)}

DriftDraws(E, t) ==
    {S \cup DriftSure(E, t) : S \in SUBSET DriftMaybe(E, t)}

RECURSIVE check_compliance_drift_from(_, _, _, _)
check_compliance_drift_from(E, t, D, i) ==
    IF i > Len(all_controls) THEN E
    ELSE check_compliance_drift_from(
             drift_on_control(E, t, all_controls[i], all_controls[i] \in D),
             t, D, i + 1)

check_compliance_drift(E, t, D) == check_compliance_drift_from(E, t, D, 1)

(***************************************************************************)
(* _check_overdue_reviews                                                  *)
(***************************************************************************)
\* The try block: a date that does not parse is passed over.
review_overdue(c, t) ==
    LET review_date == strptime(c.next_review_date)
    IN review_date # None /\ t > review_date[1]

\* A review check that reports an overdue control once only.
overdue_on_control_once(E, t, cid) ==
    IF /\ review_overdue(E.controls[cid], t)
       /\ \A i \in 1..Len(E.alerts) :
              E.alerts[i].title # <<"Overdue review", cid>>
    THEN create_alert(E, t, <<"Overdue review", cid>>,
                      <<"is past its review date", cid>>, MEDIUM)
    ELSE E

overdue_on_control(E, t, cid) ==
    IF review_overdue(E.controls[cid], t)
    THEN create_alert(E, t, <<"Overdue review", cid>>,
                      <<"is past its review date", cid>>, MEDIUM)
    ELSE E

RECURSIVE check_overdue_reviews_from(_, _, _)
check_overdue_reviews_from(E, t, i) ==
    IF i > Len(all_controls) THEN E
    ELSE check_overdue_reviews_from(
             overdue_on_control(E, t, all_controls[i]), t, i + 1)

check_overdue_reviews(E, t) == check_overdue_reviews_from(E, t, 1)

(***************************************************************************)
(* acknowledge_alert, get_active_alerts                                    *)
(***************************************************************************)
\* The unacknowledged alerts, newest first.
get_active_alerts_newest_first(al) ==
    LET a == SelectSeq(al, LAMBDA x : ~x.acknowledged)
    IN [i \in 1..Len(a) |-> a[Len(a) + 1 - i]]

get_active_alerts(al) == SelectSeq(al, LAMBDA a : ~a.acknowledged)

\* A search that falls back on the first alert when no id matches.
find_alert_or_first(al, alert_id) ==
    IF \E i \in 1..Len(al) : al[i].id = alert_id
    THEN CHOOSE i \in 1..Len(al) :
             /\ al[i].id = alert_id
             /\ \A j \in 1..(i - 1) : al[j].id # alert_id
    ELSE IF Len(al) > 0 THEN 1 ELSE 0

\* Index of the first alert with that id, 0 when there is none.
find_alert(al, alert_id) ==
    IF \E i \in 1..Len(al) : al[i].id = alert_id
    THEN CHOOSE i \in 1..Len(al) :
             /\ al[i].id = alert_id
             /\ \A j \in 1..(i - 1) : al[j].id # alert_id
    ELSE 0

\* An acknowledge that flips the flag instead of setting it.
acknowledge_alert_flip(E, alert_id) ==
    LET i == find_alert(E.alerts, alert_id)
    IN IF i = 0 THEN [E |-> E, ret |-> FALSE]
       ELSE [E |-> [E EXCEPT !.alerts[i].acknowledged = ~@], ret |-> TRUE]

acknowledge_alert(E, alert_id) ==
    LET i == find_alert(E.alerts, alert_id)
    IN IF i = 0 THEN [E |-> E, ret |-> FALSE]
       ELSE [E |-> [E EXCEPT !.alerts[i].acknowledged = TRUE], ret |-> TRUE]

(***************************************************************************)
(* resolve_incident                                                        *)
(***************************************************************************)
\* incident.incident_id == incident_id and not incident.resolution_time
resolvable(incident, incident_id) ==
    incident.incident_id = incident_id /\ incident.resolution_time = None

\* Index of the first incident the loop accepts, 0 when there is none.
find_incident(inc, incident_id) ==
    IF \E i \in 1..Len(inc) : resolvable(inc[i], incident_id)
    THEN CHOOSE i \in 1..Len(inc) :
             /\ resolvable(inc[i], incident_id)
             /\ \A j \in 1..(i - 1) : ~resolvable(inc[j], incident_id)
    ELSE 0

\* A restore that also takes an in_progress control to compliant.
restore_control_any(E, t, incident, cid) ==
    IF /\ InSeq(cid, incident.affected_controls)
       /\ E.controls[cid].status \in {NON_COMPLIANT, IN_PROGRESS}
    THEN create_alert(
             [E EXCEPT !.controls[cid].status = COMPLIANT,
                       !.controls[cid].last_assessment_date = Some(t)],
             t, <<"Control restored", cid>>,
             <<"restored to compliance after incident resolution", cid>>, LOW)
    ELSE E

\* The body of the inner loop for one control of all_controls.
restore_control(E, t, incident, cid) ==
    IF /\ InSeq(cid, incident.affected_controls)
       /\ E.controls[cid].status = NON_COMPLIANT
    THEN create_alert(
             [E EXCEPT !.controls[cid].status = COMPLIANT,
                       !.controls[cid].last_assessment_date = Some(t)],
             t, <<"Control restored", cid>>,
             <<"restored to compliance after incident resolution", cid>>, LOW)
    ELSE E

RECURSIVE restore_controls_from(_, _, _, _)
restore_controls_from(E, t, incident, i) ==
    IF i > Len(all_controls) THEN E
    ELSE restore_controls_from(
             restore_control(E, t, incident, all_controls[i]), t, incident, i + 1)

resolve_incident(E, t, incident_id) ==
    LET i == find_incident(E.incidents, incident_id)
    IN IF i = 0 THEN [E |-> E, ret |-> FALSE]
       ELSE [E |-> restore_controls_from(
                       [E EXCEPT !.incidents[i].resolution_time = Some(t)],
                       t, E.incidents[i], 1),
             ret |-> TRUE]

(***************************************************************************)
(* implement_solution                                                      *)
(***************************************************************************)
solutions(solution_type) ==
    CASE solution_type = "automation" ->
             "Automated monitoring and enforcement implemented"
      [] solution_type = "training" ->
             "Staff training and awareness program completed"
      [] solution_type = "policy_update" ->
             "Updated policies and procedures implemented"
      [] solution_type = "technology" -> "New security technology deployed"
      [] solution_type = "process" -> "Improved security processes implemented"
      [] OTHER -> "Generic solution implemented"

\* f"Solution: {solution_desc}"
solution_notes(solution_type) ==
    CASE solution_type = "automation" ->
             "Solution: Automated monitoring and enforcement implemented"
      [] solution_type = "training" ->
             "Solution: Staff training and awareness program completed"
      [] solution_type = "policy_update" ->
             "Solution: Updated policies and procedures implemented"
      [] solution_type = "technology" ->
             "Solution: New security technology deployed"
      [] solution_type = "process" ->
             "Solution: Improved security processes implemented"
      [] OTHER -> "Solution: Generic solution implemented"

\* The larger of the two in place of the smaller.
Min_larger(a, b) == IF a < b THEN b ELSE a

Min(a, b) == IF a < b THEN a ELSE b

\* automation_level raised without the min(1.0, ...) cap.
solution_automation_uncapped(level, solution_type) ==
    CASE solution_type = "automation" -> level + 3
      [] solution_type = "technology" -> level + 4
      [] OTHER -> level

\* automation_level after the solution, in tenths.
solution_automation(level, solution_type) ==
    CASE solution_type = "automation" -> Min(10, level + 3)
      [] solution_type = "technology" -> Min(10, level + 4)
      [] OTHER -> level

\* compliance_drift_factor after the solution.
solution_drift(d, solution_type) ==
    CASE solution_type = "automation" -> [n |-> d.n * 7, e |-> d.e + 1]
      [] solution_type = "training" -> [n |-> d.n * 8, e |-> d.e + 1]
      [] solution_type = "technology" -> [n |-> d.n * 6, e |-> d.e + 1]
      [] OTHER -> d

\* A status test that lets a not_assessed control through.
solution_applies_unassessed(status) == status # COMPLIANT

\* control.status in [NON_COMPLIANT, IN_PROGRESS]
solution_applies(status) == status \in {NON_COMPLIANT, IN_PROGRESS}

solution_entry(t, control_id, solution_type) ==
    [action |-> "solution_implemented",
     control_id |-> control_id, solution_type |-> solution_type,
     description |-> solutions(solution_type)]

implement_solution(E, t, control_id, solution_type) ==
    IF control_id \in ControlIds /\ solution_applies(E.controls[control_id].status)
    THEN LET c == E.controls[control_id]
             E1 == [E EXCEPT
                      !.controls[control_id].status = COMPLIANT,
                      !.controls[control_id].last_assessment_date = Some(t),
                      !.controls[control_id].automation_level =
                          solution_automation(c.automation_level, solution_type),
                      !.controls[control_id].compliance_drift_factor =
                          solution_drift(c.compliance_drift_factor, solution_type),
                      !.controls[control_id].notes = solution_notes(solution_type),
                      !.audit_log = Append(@,
                          solution_entry(t, control_id, solution_type))]
         IN [E |-> create_alert(E1, t, <<"Solution implemented", control_id>>,
                       <<"restored via", solution_type>>, LOW),
             ret |-> TRUE]
    ELSE [E |-> E, ret |-> FALSE]

(***************************************************************************)
(* The monitoring thread's loop body: one pass of                          *)
(*   try: drift; simulate; review; sleep(10)                               *)
(*   except Exception: logging.error; sleep(60)                            *)
(* fail names the call that raises, "none" when none does.  The calls      *)
(* before it have had their effect.                                        *)
(***************************************************************************)
CheckInterval == 10
BackoffInterval == 60

Failures == {"none", "drift", "simulate", "review"}

monitor_checks(E, t, D, choice, fail) ==
    IF fail = "drift" THEN E
    ELSE LET E1 == check_compliance_drift(E, t, D)
         IN IF fail = "simulate" THEN E1
            ELSE LET E2 == simulate_incidents(E1, t, choice)
                 IN IF fail = "review" THEN E2
                    ELSE check_overdue_reviews(E2, t)

\* A monitor without the except clause: a failed pass ends the thread.
monitor_after_uncaught(m, t, fail) ==
    IF fail = "none"
    THEN [m EXCEPT !.slept = CheckInterval, !.logged_error = FALSE,
                   !.wake = t + CheckInterval, !.passes = @ + 1]
    ELSE [m EXCEPT !.running = FALSE, !.passes = @ + 1, !.errors = @ + 1]

\* The monitor after the pass that began at t: the except clause keeps the
\* thread in its loop, and time.sleep returns at wake.
monitor_after(m, t, fail) ==
    IF fail = "none"
    THEN [m EXCEPT !.slept = CheckInterval, !.logged_error = FALSE,
                   !.wake = t + CheckInterval, !.passes = @ + 1]
    ELSE [m EXCEPT !.slept = BackoffInterval, !.logged_error = TRUE,
                   !.wake = t + BackoffInterval, !.passes = @ + 1,
                   !.errors = @ + 1]

(***************************************************************************)
(* State.                                                                  *)
(***************************************************************************)
Threads == {"monitor", "req1", "req2"}

\* A thread between calls.  incident and alert hold at most one record.
Idle == [pc |-> "idle", op |-> "none", incident_id |-> <<>>,
         incident |-> <<>>, idx |-> 0, ci |-> 0, count |-> 0,
         alert_for |-> "none", alert |-> <<>>, sums |-> <<>>, ret |-> FALSE]

Init ==
    /\ controls = [c \in ControlIds |->
                     IF InSeq(c, iso27001_controls)
                     THEN load_iso27001_controls[c]
                     ELSE load_pci_dss_controls[c]]
    /\ audit_log = <<>>
    /\ incidents = <<>>
    /\ alerts = <<>>
    /\ now = StartTime
    /\ monitor = [monitoring_active |-> TRUE, running |-> TRUE, slept |-> 0,
                  logged_error |-> FALSE, wake |-> StartTime,
                  passes |-> 0, errors |-> 0]
    /\ threads = [t \in Threads |-> Idle]

\* The lists stay within the bounds of the model.
Within(E) ==
    Len(E.incidents) + Len(E.alerts) + Len(E.audit_log) <= MaxRecords

Store(E) ==
    /\ Within(E)
    /\ controls' = E.controls
    /\ incidents' = E.incidents
    /\ alerts' = E.alerts
    /\ audit_log' = E.audit_log

(***************************************************************************)
(* Inputs of the callers.                                                  *)
(***************************************************************************)
UnknownControl == "X.0.0"
ControlInputs == {"A.6.1.1", "PCI.2.1", UnknownControl}
UpdateInputs == {"A.6.1.1", UnknownControl}
StatusInputs == {COMPLIANT, NON_COMPLIANT, NOT_ASSESSED}
NotesInputs == {"reviewed"}
SolutionInputs == {"automation", "other"}
\* What random.random() and random.choice may yield: an index of
\* incident_types, 0 (simulation only) when the 15% gate does not open.
SimulateChoices == {0, 2}
ForceChoices == {2, 5}
ThreadForceChoices == {1}
ThreadSimulateChoices == {0, 1}
UnknownIncident == <<"SEC-000", 0>>
UnknownAlert == <<"ALT", 0, 99>>

IncidentIdInputs ==
    {incidents[i].incident_id : i \in 1..Len(incidents)} \cup {UnknownIncident}
AlertIdInputs ==
    {alerts[i].id : i \in 1..Len(alerts)} \cup {UnknownAlert}

(***************************************************************************)
(* The operations, each run to completion.                                 *)
(***************************************************************************)
UpdateControlStatus(control_id, status, notes) ==
    LET r == update_control_status(Engine, now, control_id, status, notes)
    IN /\ Store(r.E)
       /\ UNCHANGED <<now, monitor, threads>>

ForceIncident(type) ==
    LET r == force_incident(Engine, now, type)
    IN /\ Store(r.E)
       /\ UNCHANGED <<now, monitor, threads>>

ResolveIncident(incident_id) ==
    LET r == resolve_incident(Engine, now, incident_id)
    IN /\ Store(r.E)
       /\ UNCHANGED <<now, monitor, threads>>

ImplementSolution(control_id, solution_type) ==
    LET r == implement_solution(Engine, now, control_id, solution_type)
    IN /\ Store(r.E)
       /\ UNCHANGED <<now, monitor, threads>>

AcknowledgeAlert(alert_id) ==
    LET r == acknowledge_alert(Engine, alert_id)
    IN /\ Store(r.E)
       /\ UNCHANGED <<now, monitor, threads>>

\* dashboard.py trigger_simulation: the three checks, called from a request.
TriggerSimulation(D, choice) ==
    /\ Store(monitor_checks(Engine, now, D, choice, "none"))
    /\ UNCHANGED <<now, monitor, threads>>

\* One pass of the monitoring thread's loop, begun when time.sleep has
\* returned.
MonitorPass(D, choice, fail) ==
    /\ monitor.running /\ monitor.monitoring_active
    /\ now >= monitor.wake
    /\ Store(monitor_checks(Engine, now, D, choice, fail))
    /\ monitor' = monitor_after(monitor, now, fail)
    /\ UNCHANGED <<now, threads>>

\* The first review date of the catalog: the clock is followed day by day
\* until that date has come.
FirstReview ==
    CHOOSE t \in {strptime(controls[c].next_review_date)[1] : c \in ControlIds} :
        \A c \in ControlIds : t <= strptime(controls[c].next_review_date)[1]

\* Time passes: one of the first seconds, or a day; the first seconds are
\* followed one by one, the days from the start or from a later time.
AdvanceClock(d) ==
    /\ \/ d = 1 /\ now < MaxSec
       \/ d = SecondsPerDay /\ now < FirstReview
                            /\ now \notin (StartTime + 1)..(StartTime + MaxSec)
    /\ now' = now + d
    /\ UNCHANGED <<controls, incidents, alerts, audit_log, monitor, threads>>

Next ==
    \/ \E c \in UpdateInputs, st \in StatusInputs, n \in NotesInputs :
           UpdateControlStatus(c, st, n)
    \/ \E i \in ForceChoices : ForceIncident(force_incident_types[i])
    \/ \E id \in IncidentIdInputs : ResolveIncident(id)
    \/ \E c \in ControlInputs, s \in SolutionInputs : ImplementSolution(c, s)
    \/ \E id \in AlertIdInputs : AcknowledgeAlert(id)
    \/ \E D \in DriftDraws(Engine, now), choice \in SimulateChoices :
           TriggerSimulation(D, choice)
    \/ \E d \in {1, SecondsPerDay} : AdvanceClock(d)

Spec == Init /\ [][Next]_vars

(***************************************************************************)
(* The monitoring thread on its own: a runnable thread runs, and time      *)
(* passes.                                                                 *)
(***************************************************************************)
MonitorRun ==
    \E D \in DriftDraws(Engine, now), choice \in SimulateChoices,
       fail \in Failures :
        MonitorPass(D, choice, fail)

\* time.sleep returns: the clock is at the time the thread wakes.
SleepReturns ==
    /\ monitor.passes < MaxPasses
    /\ now < monitor.wake
    /\ now' = monitor.wake
    /\ UNCHANGED <<controls, incidents, alerts, audit_log, monitor, threads>>

TimePasses == SleepReturns \/ \E d \in {1, SecondsPerDay} : AdvanceClock(d)

MonitorNext == MonitorRun \/ TimePasses

MonitorSpec ==
    Init /\ [][MonitorNext]_vars /\ WF_vars(MonitorRun) /\ WF_vars(TimePasses)

(***************************************************************************)
(* The same methods as the threads run them: the monitoring thread and     *)
(* the request threads of the dashboard share the engine with no lock, so  *)
(* a method is a sequence of steps, each with one access to the shared     *)
(* data, and the steps of different threads interleave.  The calls fall    *)
(* within one second of the clock.                                         *)
(***************************************************************************)
RequestThreads == {"req1", "req2"}

Records == Len(incidents) + Len(alerts) + Len(audit_log)

\* Index in all_controls of the next control of the incident's list after
\* position i, 0 when the loop is over.
next_affected(incident, i) ==
    IF \E j \in (i + 1)..Len(all_controls) :
           InSeq(all_controls[j], incident.affected_controls)
    THEN CHOOSE j \in (i + 1)..Len(all_controls) :
             /\ InSeq(all_controls[j], incident.affected_controls)
             /\ \A k \in (i + 1)..(j - 1) :
                    ~InSeq(all_controls[k], incident.affected_controls)
    ELSE 0

\* The thread goes on with the loop over all_controls after position i:
\* the loop of _apply_incident_impact or the inner loop of resolve_incident.
loop_on(l, i) ==
    LET j == next_affected(l.incident[1], i)
    IN IF j # 0
       THEN [l EXCEPT !.ci = j,
                      !.pc = IF l.op = "resolve_incident"
                             THEN "restore_status" ELSE "impact_read"]
       ELSE [Idle EXCEPT !.pc = "done", !.op = l.op, !.idx = l.idx,
                         !.incident = l.incident,
                         !.ret = TRUE]

SetThread(th, l) == threads' = [threads EXCEPT ![th] = l]

BeginForce(th, i) ==
    /\ th \in RequestThreads /\ threads[th].pc = "idle"
    /\ SetThread(th, [Idle EXCEPT !.pc = "append_incident",
                        !.op = "force_incident",
                        !.incident = << ComplianceIncident(
                            force_incident_types[i], now,
                            "Manually triggered incident") >>])
    /\ UNCHANGED <<controls, incidents, alerts, audit_log, now, monitor>>

\* The monitoring thread's call of _simulate_incidents.
BeginSimulate(th, choice) ==
    /\ th = "monitor" /\ threads[th].pc = "idle"
    /\ SetThread(th,
           IF choice = 0
           THEN [Idle EXCEPT !.pc = "done", !.op = "simulate_incidents"]
           ELSE [Idle EXCEPT !.pc = "append_incident",
                    !.op = "simulate_incidents",
                    !.incident = << ComplianceIncident(
                        simulate_incident_types[choice], now,
                        "Automated incident simulation") >>])
    /\ UNCHANGED <<controls, incidents, alerts, audit_log, now, monitor>>

\* self.incidents.append(incident)
AppendIncident(th) ==
    /\ threads[th].pc = "append_incident"
    /\ Records < MaxRecords
    /\ incidents' = Append(incidents, threads[th].incident[1])
    /\ SetThread(th, loop_on(threads[th], 0))
    /\ UNCHANGED <<controls, alerts, audit_log, now, monitor>>

\* control.incident_count += 1, the read
ImpactRead(th) ==
    /\ threads[th].pc = "impact_read"
    /\ SetThread(th, [threads[th] EXCEPT !.pc = "impact_write",
           !.count = controls[all_controls[threads[th].ci]].incident_count])
    /\ UNCHANGED <<controls, incidents, alerts, audit_log, now, monitor>>

\* control.incident_count += 1, the write
ImpactWrite(th) ==
    /\ threads[th].pc = "impact_write"
    /\ controls' = [controls EXCEPT
           ![all_controls[threads[th].ci]].incident_count = threads[th].count + 1]
    /\ SetThread(th, [threads[th] EXCEPT !.pc = "impact_status", !.count = 0])
    /\ UNCHANGED <<incidents, alerts, audit_log, now, monitor>>

\* if control.status == ComplianceStatus.COMPLIANT
ImpactStatus(th) ==
    /\ threads[th].pc = "impact_status"
    /\ SetThread(th,
           IF controls[all_controls[threads[th].ci]].status = COMPLIANT
           THEN [threads[th] EXCEPT !.pc = "impact_set"]
           ELSE loop_on(threads[th], threads[th].ci))
    /\ UNCHANGED <<controls, incidents, alerts, audit_log, now, monitor>>

\* control.status = ComplianceStatus.NON_COMPLIANT
ImpactSet(th) ==
    /\ threads[th].pc = "impact_set"
    /\ controls' = [controls EXCEPT
           ![all_controls[threads[th].ci]].status = NON_COMPLIANT]
    /\ SetThread(th, [threads[th] EXCEPT !.pc = "alert_build",
                                          !.alert_for = "impact"])
    /\ UNCHANGED <<incidents, alerts, audit_log, now, monitor>>

\* _create_alert: the dictionary, with len(self.alerts) and the time as read
AlertBuild(th) ==
    /\ threads[th].pc = "alert_build"
    /\ LET l == threads[th]
           cid == all_controls[l.ci]
       IN SetThread(th, [l EXCEPT !.pc = "alert_append",
              !.alert = IF l.alert_for = "impact"
                        THEN << new_alert(now, Len(alerts),
                                  <<"Incident impact", cid>>,
                                  <<"Control affected by incident",
                                    l.incident[1].title>>,
                                  l.incident[1].severity) >>
                        ELSE << new_alert(now, Len(alerts),
                                  <<"Control restored", cid>>,
                                  <<"restored to compliance after incident resolution",
                                    cid>>, LOW) >>])
    /\ UNCHANGED <<controls, incidents, alerts, audit_log, now, monitor>>

\* _create_alert: self.alerts.append(alert)
AlertAppend(th) ==
    /\ threads[th].pc = "alert_append"
    /\ Records < MaxRecords
    /\ alerts' = Append(alerts, threads[th].alert[1])
    /\ SetThread(th, loop_on([threads[th] EXCEPT !.alert = <<>>,
                                                  !.alert_for = "none"],
                             threads[th].ci))
    /\ UNCHANGED <<controls, incidents, audit_log, now, monitor>>

BeginResolve(th, incident_id) ==
    /\ th \in RequestThreads /\ threads[th].pc = "idle"
    /\ SetThread(th, [Idle EXCEPT !.pc = "resolve_find",
                        !.op = "resolve_incident",
                        !.incident_id = incident_id])
    /\ UNCHANGED <<controls, incidents, alerts, audit_log, now, monitor>>

\* The loop over self.incidents up to the first incident it accepts.
ResolveFind(th) ==
    /\ threads[th].pc = "resolve_find"
    /\ LET i == find_incident(incidents, threads[th].incident_id[1])
       IN SetThread(th,
              IF i = 0
              THEN [Idle EXCEPT !.pc = "done", !.op = "resolve_incident",
                                !.ret = FALSE]
              ELSE [threads[th] EXCEPT !.pc = "resolve_set", !.idx = i,
                                       !.incident = <<incidents[i]>>])
    /\ UNCHANGED <<controls, incidents, alerts, audit_log, now, monitor>>

\* incident.resolution_time = datetime.datetime.now()
ResolveSet(th) ==
    /\ threads[th].pc = "resolve_set"
    /\ incidents' = [incidents EXCEPT
           ![threads[th].idx].resolution_time = Some(now)]
    /\ SetThread(th, loop_on(threads[th], 0))
    /\ UNCHANGED <<controls, alerts, audit_log, now, monitor>>

\* if control.status == ComplianceStatus.NON_COMPLIANT
RestoreStatus(th) ==
    /\ threads[th].pc = "restore_status"
    /\ SetThread(th,
           IF controls[all_controls[threads[th].ci]].status = NON_COMPLIANT
           THEN [threads[th] EXCEPT !.pc = "restore_set"]
           ELSE loop_on(threads[th], threads[th].ci))
    /\ UNCHANGED <<controls, incidents, alerts, audit_log, now, monitor>>

\* control.status = ComplianceStatus.COMPLIANT
RestoreSet(th) ==
    /\ threads[th].pc = "restore_set"
    /\ controls' = [controls EXCEPT
           ![all_controls[threads[th].ci]].status = COMPLIANT]
    /\ SetThread(th, [threads[th] EXCEPT !.pc = "restore_assess"])
    /\ UNCHANGED <<incidents, alerts, audit_log, now, monitor>>

\* control.last_assessment_date = datetime.datetime.now()
RestoreAssess(th) ==
    /\ threads[th].pc = "restore_assess"
    /\ controls' = [controls EXCEPT
           ![all_controls[threads[th].ci]].last_assessment_date = Some(now)]
    /\ SetThread(th, [threads[th] EXCEPT !.pc = "alert_build",
                                          !.alert_for = "restore"])
    /\ UNCHANGED <<incidents, alerts, audit_log, now, monitor>>

\* _get_standard_summary on the PCI DSS list, called from a request.
BeginSummary(th) ==
    /\ th \in RequestThreads /\ threads[th].pc = "idle"
    /\ SetThread(th, [Idle EXCEPT !.pc = "summary",
                                  !.op = "get_standard_summary"])
    /\ UNCHANGED <<controls, incidents, alerts, audit_log, now, monitor>>

SummaryOrder == <<COMPLIANT, NON_COMPLIANT, IN_PROGRESS, NOT_ASSESSED>>

\* One of the four list comprehensions, in the order of the code.
SummaryCount(th) ==
    /\ threads[th].pc = "summary"
    /\ LET l == threads[th]
           k == Len(l.sums) + 1
           got == Append(l.sums,
                      count_status(controls, pci_dss_controls, SummaryOrder[k]))
       IN SetThread(th, [l EXCEPT !.sums = got,
              !.pc = IF k = Len(SummaryOrder) THEN "done" ELSE "summary",
              !.ret = (k = Len(SummaryOrder))])
    /\ UNCHANGED <<controls, incidents, alerts, audit_log, now, monitor>>

\* The call returns; the thread is free for the next one.
Return(th) ==
    /\ threads[th].pc = "done"
    /\ SetThread(th, Idle)
    /\ UNCHANGED <<controls, incidents, alerts, audit_log, now, monitor>>

ThreadNext ==
    \/ \E th \in RequestThreads, i \in ThreadForceChoices : BeginForce(th, i)
    \/ \E choice \in ThreadSimulateChoices : BeginSimulate("monitor", choice)
    \/ \E th \in Threads : AppendIncident(th)
    \/ \E th \in Threads : ImpactRead(th)
    \/ \E th \in Threads : ImpactWrite(th)
    \/ \E th \in Threads : ImpactStatus(th)
    \/ \E th \in Threads : ImpactSet(th)
    \/ \E th \in Threads : AlertBuild(th)
    \/ \E th \in Threads : AlertAppend(th)
    \/ \E th \in RequestThreads, id \in IncidentIdInputs :
           BeginResolve(th, <<id>>)
    \/ \E th \in Threads : ResolveFind(th)
    \/ \E th \in Threads : ResolveSet(th)
    \/ \E th \in Threads : RestoreStatus(th)
    \/ \E th \in Threads : RestoreSet(th)
    \/ \E th \in Threads : RestoreAssess(th)
    \/ \E th \in RequestThreads : BeginSummary(th)
    \/ \E th \in Threads : SummaryCount(th)
    \/ \E th \in Threads : Return(th)

ThreadSpec == Init /\ [][ThreadNext]_vars

(***************************************************************************)
(* Properties.  The inputs of a call range over these sets.                *)
(***************************************************************************)
AnyControlId == ControlIds \cup {UnknownControl}
AnyNotes == {"", "reviewed"}
AnySolution ==
    {"automation", "training", "policy_update", "technology", "process", "other"}

SomeResolved(incident_id) ==
    \E i \in 1..Len(incidents) :
        /\ incidents[i].incident_id = incident_id
        /\ incidents[i].resolution_time # None

\* C1: resolve_incident on an id whose incident already has a resolution
\* timestamp returns failure and changes no control, incident, alert or audit
\* entry.
C1_ResolveResolvedFails ==
    \A id \in IncidentIdInputs :
        SomeResolved(id) =>
            resolve_incident(Engine, now, id) = [E |-> Engine, ret |-> FALSE]

\* C2: the incidents of the ledger have pairwise distinct identifiers.
C2_IncidentIdsDistinct ==
    \A i, j \in 1..Len(incidents) :
        i # j => incidents[i].incident_id # incidents[j].incident_id

\* C3: the four counts of a returned summary add up to the number of
\* controls of the standard.
C3_SummaryNotTorn ==
    \A th \in Threads :
        (threads[th].pc = "done" /\ threads[th].op = "get_standard_summary")
            => threads[th].sums[1] + threads[th].sums[2] + threads[th].sums[3]
                   + threads[th].sums[4] = Len(pci_dss_controls)

\* C4: a pass of the monitoring thread that fails is caught and logged and
\* the thread sleeps 60 instead of 10; the thread never leaves its loop, it
\* runs a pass again and again, and after a failed pass another pass runs.
C4_PassOutcome ==
    monitor' # monitor =>
        /\ monitor'.running /\ monitor'.monitoring_active
        /\ monitor'.passes = monitor.passes + 1
        /\ IF monitor'.errors > monitor.errors
           THEN /\ monitor'.errors = monitor.errors + 1
                /\ monitor'.logged_error
                /\ monitor'.slept = 60
                /\ monitor'.wake = now + 60
           ELSE /\ ~monitor'.logged_error
                /\ monitor'.slept = 10
                /\ monitor'.wake = now + 10

C4_MonitorNeverStops ==
    /\ [][C4_PassOutcome]_vars
    /\ []<>(monitor.wake > now)
    /\ (monitor.logged_error /\ monitor.wake <= FirstReview)
           ~> (monitor.wake > FirstReview)

\* A failed pass was caught, and a later pass has run to its end.
C4_Witness ==
    /\ monitor.running
    /\ monitor.errors >= 1
    /\ monitor.passes >= 2
    /\ ~monitor.logged_error

\* C5: an incident is resolved once: no two calls of resolve_incident return
\* success for the same incident, and no call writes a resolution timestamp
\* that is already set.
C5_ResolvedOnce ==
    /\ \A t1, t2 \in Threads :
           ( /\ t1 # t2
             /\ threads[t1].pc = "done" /\ threads[t2].pc = "done"
             /\ threads[t1].op = "resolve_incident"
             /\ threads[t2].op = "resolve_incident"
             /\ threads[t1].ret /\ threads[t2].ret )
               => threads[t1].idx # threads[t2].idx
    /\ \A th \in Threads :
           threads[th].pc = "resolve_set"
               => incidents[threads[th].idx].resolution_time = None

\* C6: no step of any thread decreases a control's incident_count.
C6_CountNeverDecreases ==
    [][\A c \in ControlIds :
           controls'[c].incident_count >= controls[c].incident_count]_vars

\* C7: an alert is created unacknowledged, an acknowledged alert stays
\* acknowledged, and acknowledge(alert_id) changes no alert with another id.
C7_AcknowledgeTouchesTarget ==
    \A id \in AlertIdInputs :
        LET r == acknowledge_alert(Engine, id)
        IN /\ Len(r.E.alerts) = Len(alerts)
           /\ \A i \in 1..Len(alerts) :
                  /\ alerts[i].id # id => r.E.alerts[i] = alerts[i]
                  /\ alerts[i].acknowledged => r.E.alerts[i].acknowledged

C7_AlertStep ==
    /\ Len(alerts') >= Len(alerts)
    /\ \A i \in 1..Len(alerts) :
           /\ alerts'[i].id = alerts[i].id
           /\ alerts[i].acknowledged => alerts'[i].acknowledged
    /\ \A i \in (Len(alerts) + 1)..Len(alerts') : ~alerts'[i].acknowledged

C7_AcknowledgedOnlyRises ==
    /\ []C7_AcknowledgeTouchesTarget
    /\ [][C7_AlertStep]_vars

\* An acknowledged alert, and one created after it that is not.
C7_Witness ==
    \E i, j \in 1..Len(alerts) :
        i < j /\ alerts[i].acknowledged /\ ~alerts[j].acknowledged

\* C8: implement_solution fails exactly when the control is unknown or its
\* status is neither non_compliant nor in_progress, and then changes nothing.
C8_SolutionFailsExactly ==
    \A c \in AnyControlId, s \in AnySolution :
        LET r == implement_solution(Engine, now, c, s)
            bad == \/ c \notin ControlIds
                   \/ controls[c].status \in {COMPLIANT, NOT_ASSESSED}
        IN /\ r.ret = ~bad
           /\ bad => r.E = Engine

\* A control made compliant by a solution and one set to not_assessed: the
\* call fails on both.
C8_Witness ==
    /\ \E i \in 1..Len(audit_log) : audit_log[i].action = "solution_implemented"
    /\ \E c, d \in ControlIds :
           /\ controls[c].status = COMPLIANT
           /\ controls[d].status = NOT_ASSESSED
           /\ ~implement_solution(Engine, now, c, "automation").ret
           /\ ~implement_solution(Engine, now, d, "automation").ret

\* a / 10^a.e = (k / 10) * (b / 10^b.e)
DriftTimes(a, k, b) == 10 * a.n * (10 ^ b.e) = k * b.n * (10 ^ a.e)

\* C9: a successful implement_solution makes the control compliant, sets
\* its last assessment to now, appends one audit entry and one low alert,
\* and changes automation_level and drift factor by the solution type:
\* automation +0.3 (at most 1.0) and x0.7, training x0.8, technology +0.4
\* (at most 1.0) and x0.6, any other type neither.
C9_SolutionEffect ==
    \A c \in ControlIds, s \in AnySolution :
        controls[c].status \in {NON_COMPLIANT, IN_PROGRESS} =>
            LET r == implement_solution(Engine, now, c, s)
                old == controls[c]
                new == r.E.controls[c]
            IN /\ r.ret
               /\ new.status = COMPLIANT
               /\ new.last_assessment_date = Some(now)
               /\ Len(r.E.audit_log) = Len(audit_log) + 1
               /\ SubSeq(r.E.audit_log, 1, Len(audit_log)) = audit_log
               /\ Len(r.E.alerts) = Len(alerts) + 1
               /\ SubSeq(r.E.alerts, 1, Len(alerts)) = alerts
               /\ r.E.alerts[Len(alerts) + 1].severity = LOW
               /\ s = "automation" =>
                      /\ new.automation_level =
                             IF old.automation_level + 3 > 10 THEN 10
                             ELSE old.automation_level + 3
                      /\ old.automation_level = 5 => new.automation_level = 8
                      /\ DriftTimes(new.compliance_drift_factor, 7,
                                    old.compliance_drift_factor)
               /\ s = "training" =>
                      /\ new.automation_level = old.automation_level
                      /\ DriftTimes(new.compliance_drift_factor, 8,
                                    old.compliance_drift_factor)
               /\ s = "technology" =>
                      /\ new.automation_level =
                             IF old.automation_level + 4 > 10 THEN 10
                             ELSE old.automation_level + 4
                      /\ DriftTimes(new.compliance_drift_factor, 6,
                                    old.compliance_drift_factor)
               /\ s \notin {"automation", "training", "technology"} =>
                      /\ new.automation_level = old.automation_level
                      /\ new.compliance_drift_factor =
                             old.compliance_drift_factor

\* A control at automation_level 0.5 after one solution, non_compliant
\* again, on which "automation" yields 0.8.
C9_Witness ==
    \E c \in ControlIds :
        /\ \E i \in 1..Len(audit_log) :
               /\ audit_log[i].action = "solution_implemented"
               /\ audit_log[i].control_id = c
        /\ controls[c].automation_level = 5
        /\ controls[c].status = NON_COMPLIANT
        /\ implement_solution(Engine, now, c, "automation")
               .E.controls[c].automation_level = 8

\* C10: update_status on an unknown id returns false and changes nothing;
\* on a known id it returns true, sets that control's status and notes,
\* appends one audit entry with the old and the new status, and leaves
\* every other control as it was.
C10_UpdateStatus ==
    \A c \in AnyControlId, st \in ComplianceStatus, n \in AnyNotes :
        LET r == update_control_status(Engine, now, c, st, n)
        IN IF c \notin ControlIds
           THEN r = [E |-> Engine, ret |-> FALSE]
           ELSE /\ r.ret
                /\ r.E.controls[c].status = st
                /\ r.E.controls[c].notes = n
                /\ \A d \in ControlIds \ {c} : r.E.controls[d] = controls[d]
                /\ Len(r.E.audit_log) = Len(audit_log) + 1
                /\ SubSeq(r.E.audit_log, 1, Len(audit_log)) = audit_log
                /\ LET e == r.E.audit_log[Len(audit_log) + 1]
                   IN /\ e.action = "status_update"
                      /\ e.control_id = c
                      /\ e.old_status = controls[c].status
                      /\ e.new_status = st

\* A status update has been recorded, and it changed the status.
C10_Witness ==
    \E i \in 1..Len(audit_log) :
        /\ audit_log[i].action = "status_update"
        /\ audit_log[i].old_status # audit_log[i].new_status
        /\ controls[audit_log[i].control_id].notes = "reviewed"

\* The alerts a call appended: those of E2.alerts after the ones of E1.
AddedAlerts(E1, E2) == SubSeq(E2.alerts, Len(E1.alerts) + 1, Len(E2.alerts))

\* C11: a successful resolve_incident sets the resolution timestamp of one
\* unresolved incident with that id; every non_compliant control of its
\* affected list becomes compliant with last assessment now and gets one
\* low "restored" alert; every other control is untouched, and so are the
\* other incidents, the audit log and every incident_count.
C11_ResolveFrame ==
    \A id \in IncidentIdInputs :
        LET r == resolve_incident(Engine, now, id)
            hit == {i \in 1..Len(incidents) :
                       r.E.incidents[i] # incidents[i]}
        IN r.ret =>
           /\ Len(r.E.incidents) = Len(incidents)
           /\ r.E.audit_log = audit_log
           /\ SubSeq(r.E.alerts, 1, Len(alerts)) = alerts
           /\ \E i \in 1..Len(incidents) :
                  /\ hit = {i}
                  /\ incidents[i].incident_id = id
                  /\ incidents[i].resolution_time = None
                  /\ r.E.incidents[i] =
                         [incidents[i] EXCEPT !.resolution_time = Some(now)]
                  /\ LET restored ==
                             {c \in ControlIds :
                                 /\ InSeq(c, incidents[i].affected_controls)
                                 /\ controls[c].status = NON_COMPLIANT}
                         added == AddedAlerts(Engine, r.E)
                     IN /\ \A c \in restored :
                               r.E.controls[c] =
                                   [controls[c] EXCEPT
                                       !.status = COMPLIANT,
                                       !.last_assessment_date = Some(now)]
                        /\ \A c \in ControlIds \ restored :
                               r.E.controls[c] = controls[c]
                        /\ Len(added) = Cardinality(restored)
                        /\ \A c \in restored :
                               Cardinality({k \in 1..Len(added) :
                                   added[k].title = <<"Control restored", c>>}) = 1
                        /\ \A k \in 1..Len(added) :
                               /\ added[k].severity = LOW
                               /\ ~added[k].acknowledged

\* An incident was resolved and its control restored.
C11_Witness ==
    /\ \E i \in 1..Len(incidents), k \in 1..Len(alerts) :
           /\ incidents[i].resolution_time # None
           /\ alerts[k].title[1] = "Control restored"
           /\ InSeq(alerts[k].title[2], incidents[i].affected_controls)
           /\ controls[alerts[k].title[2]].status = COMPLIANT

\* C12: the impact of an incident applied twice raises the incident_count
\* of a control it affects by 2; a control that was compliant is
\* non_compliant after the first application and after the second, and
\* only the first application adds an alert; a control in another status
\* keeps it and gets no alert.
C12_ImpactTwice ==
    \A k \in 1..Len(force_incident_types) :
        LET incident == ComplianceIncident(force_incident_types[k], now,
                                           "Manually triggered incident")
            E1 == apply_incident_impact(Engine, now, incident)
            E2 == apply_incident_impact(E1, now, incident)
        IN \A c \in ControlIds :
               InSeq(c, incident.affected_controls) =>
                   /\ E1.controls[c].incident_count =
                          controls[c].incident_count + 1
                   /\ E2.controls[c].incident_count =
                          controls[c].incident_count + 2
                   /\ E2.alerts = E1.alerts
                   /\ IF controls[c].status = COMPLIANT
                      THEN /\ E1.controls[c].status = NON_COMPLIANT
                           /\ E2.controls[c].status = NON_COMPLIANT
                           /\ Len(AddedAlerts(Engine, E1)) = 1
                           /\ AddedAlerts(Engine, E1)[1].title =
                                  <<"Incident impact", c>>
                      ELSE /\ E1.controls[c].status = controls[c].status
                           /\ E2.controls[c].status = controls[c].status
                           /\ E1.alerts = alerts

\* Two incidents have hit a control that was compliant: its count is 2, it
\* is non_compliant and there is one impact alert for it.
C12_Witness ==
    \E c \in ControlIds :
        /\ Cardinality({i \in 1..Len(incidents) :
               InSeq(c, incidents[i].affected_controls)}) = 2
        /\ controls[c].incident_count = 2
        /\ controls[c].status = NON_COMPLIANT
        /\ Cardinality({k \in 1..Len(alerts) :
               alerts[k].title = <<"Incident impact", c>>}) = 1

\* C13: on a compliant control with incident_count 0, force_incident with
\* a template that affects it leaves it non_compliant with count 1 and one
\* new alert of the incident's severity; resolve_incident on the returned
\* id then succeeds, sets that incident's resolution time, and leaves the
\* control compliant with last assessment refreshed and one more alert,
\* the "restored" one.
C13_ForceThenResolve ==
    \A k \in 1..Len(force_incident_types), c \in ControlIds, d \in {0, 1} :
        ( /\ InSeq(c, force_incident_types[k].affected_controls)
          /\ controls[c].status = COMPLIANT
          /\ controls[c].incident_count = 0 ) =>
            LET f == force_incident(Engine, now, force_incident_types[k])
                r == resolve_incident(f.E, now + d, f.ret.incident_id)
                a1 == AddedAlerts(Engine, f.E)
                a2 == AddedAlerts(f.E, r.E)
                n == Len(incidents) + 1
            IN /\ Len(f.E.incidents) = n
               /\ f.E.incidents[n] = f.ret
               /\ f.E.controls[c].status = NON_COMPLIANT
               /\ f.E.controls[c].incident_count = 1
               /\ Len(a1) = 1
               /\ a1[1].severity = f.ret.severity
               /\ r.ret
               /\ r.E.incidents[n].resolution_time = Some(now + d)
               /\ r.E.controls[c].status = COMPLIANT
               /\ r.E.controls[c].incident_count = 1
               /\ r.E.controls[c].last_assessment_date = Some(now + d)
               /\ Len(a2) = 1
               /\ a2[1].title = <<"Control restored", c>>
               /\ a2[1].severity = LOW

\* A forced incident hit a compliant control with count 0 and was
\* resolved: the control is compliant again, and the two alerts are there.
C13_Witness ==
    \E i \in 1..Len(incidents), c \in ControlIds :
        /\ incidents[i].description = "Manually triggered incident"
        /\ InSeq(c, incidents[i].affected_controls)
        /\ incidents[i].resolution_time # None
        /\ controls[c].status = COMPLIANT
        /\ controls[c].incident_count = 1
        /\ controls[c].last_assessment_date = incidents[i].resolution_time
        /\ \E k1, k2 \in 1..Len(alerts) :
               /\ k1 < k2
               /\ alerts[k1].title = <<"Incident impact", c>>
               /\ alerts[k1].severity = incidents[i].severity
               /\ alerts[k2].title = <<"Control restored", c>>

\* (code, title, affected controls, severity) of an incident.
TemplateOf(incident) ==
    <<incident.incident_id[1], incident.title, incident.affected_controls,
      incident.severity>>

SimulatorTemplates ==
    {<<simulate_incident_types[j].code, simulate_incident_types[j].title,
       simulate_incident_types[j].affected_controls,
       simulate_incident_types[j].severity>> :
         j \in 1..Len(simulate_incident_types)}

\* C14: every incident that force_incident has put in the ledger has a
\* (code, title, affected controls, severity) that the Incident Simulator
\* can produce.
C14_ForcedIsSimulated ==
    \A i \in 1..Len(incidents) :
        incidents[i].description = "Manually triggered incident"
            => TemplateOf(incidents[i]) \in SimulatorTemplates

\* C15: the alerts of the alert sink have pairwise distinct identifiers.
C15_AlertIdsDistinct ==
    \A i, j \in 1..Len(alerts) : i # j => alerts[i].id # alerts[j].id

\* The lists summary is called on, and an empty one.
SummaryLists == {iso27001_controls, pci_dss_controls, << >>}

\* C16: the summary of a list of controls gives total = the number of
\* controls, for each status the number of its controls in that status,
\* and compliance_percentage (in hundredths) = compliant / total * 100
\* rounded to the nearest hundredth: 100.00 when all are compliant, 0 for
\* the empty list.
C16_Summary ==
    \A ids \in SummaryLists :
        LET r == get_standard_summary(controls, ids, "S")
            members == {ids[i] : i \in 1..Len(ids)}
            with(st) == Cardinality({c \in members : controls[c].status = st})
        IN /\ r.total_controls = Cardinality(members)
           /\ r.compliant = with(COMPLIANT)
           /\ r.non_compliant = with(NON_COMPLIANT)
           /\ r.in_progress = with(IN_PROGRESS)
           /\ r.not_assessed = with(NOT_ASSESSED)
           /\ r.compliant + r.non_compliant + r.in_progress + r.not_assessed
                  = r.total_controls
           /\ members = {} => r.compliance_percentage = 0
           /\ members # {} =>
                  LET e == r.compliance_percentage * r.total_controls
                               - with(COMPLIANT) * 10000
                  IN 2 * e <= r.total_controls /\ 2 * e > -r.total_controls
           /\ (members # {} /\ \A c \in members : controls[c].status = COMPLIANT)
                  => r.compliance_percentage = 10000

\* A solution has made every ISO 27001 control compliant: 100.00, beside
\* one of three PCI DSS controls: 33.33.
C16_Witness ==
    /\ \E i \in 1..Len(audit_log) : audit_log[i].action = "solution_implemented"
    /\ get_standard_summary(controls, iso27001_controls, "ISO27001")
           .compliance_percentage = 10000
    /\ get_standard_summary(controls, pci_dss_controls, "PCI_DSS")
           .compliance_percentage = 3333

\* Alert ids to ask for: those of the sink, the id the next alert would
\* get, and one of no clock second.
AnyAlertId ==
    AlertIdInputs \cup {alert_id_of(t, n) : t \in {StartTime, now},
                                           n \in 0..(Len(alerts) + 1)}

\* C17: acknowledge_alert with an id that no alert has returns failure and
\* leaves the alert sink, and with it the result of get_active_alerts, as
\* it was.
C17_AcknowledgeUnknown ==
    \A id \in AnyAlertId :
        (\A i \in 1..Len(alerts) : alerts[i].id # id) =>
            LET r == acknowledge_alert(Engine, id)
            IN /\ ~r.ret
               /\ r.E = Engine
               /\ get_active_alerts(r.E.alerts) = get_active_alerts(alerts)

\* A sink with an active and an acknowledged alert, asked for an id it
\* does not hold.
C17_Witness ==
    /\ \E i, j \in 1..Len(alerts) :
           alerts[i].acknowledged /\ ~alerts[j].acknowledged
    /\ \A i \in 1..Len(alerts) : alerts[i].id # UnknownAlert
    /\ ~acknowledge_alert(Engine, UnknownAlert).ret

\* C18: the alerts stand in the sink in the order of their creation;
\* get_active_alerts returns the unacknowledged ones among them, each once
\* and in that order; a successful acknowledge_alert takes the alert with
\* that id out of the result and changes nothing else in it.
C18_ActiveAlerts ==
    LET active == get_active_alerts(alerts)
        open == {i \in 1..Len(alerts) : ~alerts[i].acknowledged}
        rank(i) == Cardinality({j \in open : j <= i})
    IN /\ \A i \in 1..Len(alerts) :
              /\ alerts[i].id[3] = i - 1
              /\ \A j \in 1..Len(alerts) :
                     i < j => alerts[i].timestamp <= alerts[j].timestamp
       /\ Len(active) = Cardinality(open)
       /\ \A i \in open : active[rank(i)] = alerts[i]
       /\ \A id \in AlertIdInputs :
              LET r == acknowledge_alert(Engine, id)
                  after == get_active_alerts(r.E.alerts)
              IN r.ret =>
                     /\ after = SelectSeq(active, LAMBDA a : a.id # id)
                     /\ \A k \in 1..Len(after) : after[k].id # id
                     /\ Len(after) >= Len(active) - 1

\* Three alerts, the second acknowledged: the first and the third are
\* active, in this order.
C18_Witness ==
    /\ Len(alerts) = 3
    /\ ~alerts[1].acknowledged /\ alerts[2].acknowledged /\ ~alerts[3].acknowledged
    /\ get_active_alerts(alerts) = <<alerts[1], alerts[3]>>

\* The operations to which the records a step appended attribute the
\* change of control c from status old to status new.
Attributions(c, old, new) ==
    LET audit == {audit_log'[i] : i \in (Len(audit_log) + 1)..Len(audit_log')}
        alert == {alerts'[i] : i \in (Len(alerts) + 1)..Len(alerts')}
    IN {"update_status" : e \in
            {e \in audit : /\ e.action = "status_update"
                           /\ e.control_id = c
                           /\ e.old_status = old /\ e.new_status = new}}
       \cup {"solution" : e \in
            {e \in audit : /\ e.action = "solution_implemented"
                           /\ e.control_id = c
                           /\ old \in {NON_COMPLIANT, IN_PROGRESS}
                           /\ new = COMPLIANT}}
       \cup {"drift" : a \in
            {a \in alert : /\ a.title = <<"Compliance drift detected", c>>
                           /\ old = COMPLIANT /\ new = IN_PROGRESS}}
       \cup {"impact" : a \in
            {a \in alert : /\ a.title = <<"Incident impact", c>>
                           /\ old = COMPLIANT /\ new = NON_COMPLIANT}}
       \cup {"resolve" : a \in
            {a \in alert : /\ a.title = <<"Control restored", c>>
                           /\ old = NON_COMPLIANT /\ new = COMPLIANT}}

C19_StatusStep ==
    \A c \in ControlIds :
        controls'[c].status # controls[c].status =>
            /\ SubSeq(audit_log', 1, Len(audit_log)) = audit_log
            /\ SubSeq(alerts', 1, Len(alerts)) \in
                   {alerts} \cup {[alerts EXCEPT ![i].acknowledged = TRUE] :
                                     i \in 1..Len(alerts)}
            /\ Cardinality(Attributions(c, controls[c].status,
                                        controls'[c].status)) = 1

\* C19: a step that changes a control's status appends a record that
\* names the control, and the appended records attribute the change to
\* exactly one of update_status, the drift check, incident impact,
\* resolve_incident and implement_solution.
C19_StatusAttributable == [][C19_StatusStep]_vars

\* A drift and a manual update have each changed a status.
C19_Witness ==
    /\ \E c \in ControlIds, k \in 1..Len(alerts) :
           /\ alerts[k].title = <<"Compliance drift detected", c>>
           /\ controls[c].status = IN_PROGRESS
    /\ \E i \in 1..Len(audit_log) :
           /\ audit_log[i].action = "status_update"
           /\ audit_log[i].old_status # audit_log[i].new_status

InRange(c) ==
    /\ c.automation_level \in 0..10
    /\ c.compliance_drift_factor.n >= 0
    /\ c.compliance_drift_factor.e >= 0

\* C20: in every reachable state every control's automation_level (in
\* tenths) lies in 0..10 and its drift factor is not negative, and
\* implement_solution of any type keeps it so, from every level in range.
C20_Ranges ==
    /\ \A c \in ControlIds : InRange(controls[c])
    /\ \A c \in ControlIds, s \in AnySolution :
           InRange(implement_solution(Engine, now, c, s).E.controls[c])
    /\ \A level \in 0..10, s \in AnySolution :
           /\ solution_automation(level, s) \in level..10
           /\ \A c \in ControlIds :
                  solution_drift(controls[c].compliance_drift_factor, s).n >= 0

\* A solution has raised an automation_level to the cap of 1.0.
C20_Witness ==
    \E c \in ControlIds, i \in 1..Len(audit_log) :
        /\ audit_log[i].action = "solution_implemented"
        /\ audit_log[i].control_id = c
        /\ audit_log[i].solution_type = "automation"
        /\ controls[c].automation_level = 10

\* Incidents to apply: one of each template of force_incident, one that
\* affects two controls, and one that affects none.
AnyIncident ==
    {ComplianceIncident(force_incident_types[k], now,
                        "Manually triggered incident") :
         k \in 1..Len(force_incident_types)}
    \cup {ComplianceIncident(
              IncidentType("SEC-007", "Two controls",
                           <<"A.5.1.1", "PCI.2.1">>, MEDIUM),
              now, "Manually triggered incident"),
          ComplianceIncident(
              IncidentType("SEC-008", "No control", << >>, LOW),
              now, "Manually triggered incident")}

\* C21: applying an incident's impact raises incident_count by 1 on each
\* control of the affected list and touches no other control; an affected
\* compliant control becomes non_compliant with one alert of the
\* incident's severity; an affected control in another status keeps it
\* and gets no alert; no other field, incident or audit entry changes.
C21_ImpactFrame ==
    \A incident \in AnyIncident :
        LET E1 == apply_incident_impact(Engine, now, incident)
            added == AddedAlerts(Engine, E1)
            hit == {c \in ControlIds : InSeq(c, incident.affected_controls)}
            turned == {c \in hit : controls[c].status = COMPLIANT}
        IN /\ E1.incidents = incidents
           /\ E1.audit_log = audit_log
           /\ SubSeq(E1.alerts, 1, Len(alerts)) = alerts
           /\ \A c \in ControlIds \ hit : E1.controls[c] = controls[c]
           /\ \A c \in hit \ turned :
                  E1.controls[c] =
                      [controls[c] EXCEPT !.incident_count = @ + 1]
           /\ \A c \in turned :
                  E1.controls[c] =
                      [controls[c] EXCEPT !.incident_count = @ + 1,
                                          !.status = NON_COMPLIANT]
           /\ Len(added) = Cardinality(turned)
           /\ \A c \in turned :
                  Cardinality({k \in 1..Len(added) :
                      added[k].title = <<"Incident impact", c>>}) = 1
           /\ \A k \in 1..Len(added) :
                  /\ added[k].severity = incident.severity
                  /\ ~added[k].acknowledged

\* An incident has hit an in_progress control, counted and without alert,
\* and another a compliant control, which an alert reports.
C21_Witness ==
    \E c, d \in ControlIds :
        /\ controls[c].status = IN_PROGRESS
        /\ controls[c].incident_count = 1
        /\ \E i \in 1..Len(incidents) : InSeq(c, incidents[i].affected_controls)
        /\ \A k \in 1..Len(alerts) : alerts[k].title # <<"Incident impact", c>>
        /\ controls[d].status = NON_COMPLIANT
        /\ controls[d].incident_count = 1
        /\ \E k \in 1..Len(alerts) :
               /\ alerts[k].title = <<"Incident impact", d>>
               /\ alerts[k].severity = CRITICAL

\* Every outcome of the draws of one drift check: the controls whose
\* threshold is positive may fall below it, those whose threshold is 1 or
\* more do.
AnyDriftDraws ==
    {S \cup DriftSure(Engine, now) :
        S \in SUBSET {c \in ControlIds :
                         /\ drift_examined(controls[c])
                         /\ drift_possible(controls[c], now)}}

\* C22: a drift check changes only controls that are compliant with a
\* last assessment; each of them stays as it is or becomes in_progress
\* with one new alert of its own risk level; no other control and no
\* other field, incident or audit entry changes.
C22_DriftFrame ==
    \A D \in AnyDriftDraws :
        LET E1 == check_compliance_drift(Engine, now, D)
            added == AddedAlerts(Engine, E1)
            drifted == {c \in ControlIds : E1.controls[c] # controls[c]}
        IN /\ E1.incidents = incidents
           /\ E1.audit_log = audit_log
           /\ SubSeq(E1.alerts, 1, Len(alerts)) = alerts
           /\ drifted = {c \in D : /\ controls[c].status = COMPLIANT
                                   /\ controls[c].last_assessment_date # None}
           /\ \A c \in drifted :
                  /\ E1.controls[c] =
                         [controls[c] EXCEPT !.status = IN_PROGRESS]
                  /\ Cardinality({k \in 1..Len(added) :
                         /\ added[k].title = <<"Compliance drift detected", c>>
                         /\ added[k].severity = controls[c].risk_level}) = 1
           /\ Len(added) = Cardinality(drifted)

\* A drift check has moved one compliant control to in_progress, with an
\* alert of its risk level, and left another compliant.
C22_Witness ==
    \E c, d \in ControlIds :
        /\ controls[c].status = IN_PROGRESS
        /\ \E k \in 1..Len(alerts) :
               /\ alerts[k].title = <<"Compliance drift detected", c>>
               /\ alerts[k].severity = controls[c].risk_level
        /\ controls[d].status = COMPLIANT
        /\ drift_possible(controls[d], now)
        /\ \A k \in 1..Len(alerts) :
               alerts[k].title # <<"Compliance drift detected", d>>

\* The engine with the review dates of the controls of B replaced by a
\* string that is no date.
WithBadDates(B) ==
    [Engine EXCEPT !.controls =
        [c \in ControlIds |->
            IF c \in B
            THEN [controls[c] EXCEPT
                     !.next_review_date = [parses |-> FALSE, date |-> 0]]
            ELSE controls[c]]]

BadDateSets == {{}, {"A.6.1.1"}, {"PCI.1.1"}, {"PCI.1.1", "PCI.2.1"}}

\* The times of a run of the review check: now, and two months later.
ReviewTimes == {now, now + 60 * SecondsPerDay}

\* C23: a run of the review check appends one medium alert for every
\* control whose review date parses and lies before now, and none for a
\* control whose date does not parse; it changes no control, incident or
\* audit entry; a second and a third run append the same number again.
C23_ReviewAuditor ==
    \A B \in BadDateSets, t \in ReviewTimes :
        LET E0 == WithBadDates(B)
            E1 == check_overdue_reviews(E0, t)
            E2 == check_overdue_reviews(E1, t)
            E3 == check_overdue_reviews(E2, t)
            overdue == {c \in ControlIds \ B :
                           controls[c].next_review_date.date < t}
            k == Cardinality(overdue)
            added == AddedAlerts(E0, E1)
        IN /\ E1.controls = E0.controls /\ E3.controls = E0.controls
           /\ E3.incidents = incidents /\ E3.audit_log = audit_log
           /\ SubSeq(E3.alerts, 1, Len(alerts)) = alerts
           /\ Len(added) = k
           /\ \A c \in overdue :
                  Cardinality({i \in 1..Len(added) :
                      added[i].title = <<"Overdue review", c>>}) = 1
           /\ \A i \in 1..Len(added) :
                  added[i].severity = MEDIUM /\ ~added[i].acknowledged
           /\ Len(AddedAlerts(E0, E2)) = 2 * k
           /\ Len(AddedAlerts(E0, E3)) = 3 * k
           /\ \A c \in overdue :
                  Cardinality({i \in 1..Len(E3.alerts) :
                      /\ i > Len(alerts)
                      /\ E3.alerts[i].title = <<"Overdue review", c>>}) = 3

\* Two runs of the review check have each reported the same overdue
\* control.
C23_Witness ==
    \E c \in ControlIds, i, j \in 1..Len(alerts) :
        /\ i < j
        /\ alerts[i].title = <<"Overdue review", c>>
        /\ alerts[j].title = <<"Overdue review", c>>
        /\ alerts[i].severity = MEDIUM /\ alerts[j].severity = MEDIUM
        /\ now > controls[c].next_review_date.date

\* incident_count of a control as the catalog sets it.
SeedCount(c) ==
    IF InSeq(c, iso27001_controls)
    THEN load_iso27001_controls[c].incident_count
    ELSE load_pci_dss_controls[c].incident_count

Quiescent == \A th \in Threads : threads[th].pc \in {"idle", "done"}

\* C24: when no operation is in progress, each control's incident_count
\* is its seed value plus the number of incidents of the ledger whose
\* affected list contains the control.
C24_CountMatchesLedger ==
    Quiescent =>
        \A c \in ControlIds :
            controls[c].incident_count =
                SeedCount(c)
                + Cardinality({i \in 1..Len(incidents) :
                      InSeq(c, incidents[i].affected_controls)})

\* C25: no unresolved incident of the ledger lists a control whose
\* status is compliant.
C25_CompliantHasNoOpenIncident ==
    \A c \in ControlIds :
        controls[c].status = COMPLIANT =>
            \A i \in 1..Len(incidents) :
                InSeq(c, incidents[i].affected_controls)
                    => incidents[i].resolution_time # None

\* What a tick may do to a status: leave it, or take compliant to
\* in_progress (drift) or to non_compliant (incident impact).
TickMove(old, new) ==
    new = old \/ (old = COMPLIANT /\ new \in {IN_PROGRESS, NON_COMPLIANT})

Compliant(ctl) == {c \in ControlIds : ctl[c].status = COMPLIANT}

\* The simulator's draw and the check that fails: a pass that fails before
\* the simulator has run does not depend on the draw.
TickOutcomes ==
    ((0..Len(simulate_incident_types)) \X {"none", "review"})
        \cup ({0} \X {"drift", "simulate"})

C26_TickClosure ==
    /\ \A k \in 1..Len(force_incident_types) :
           Compliant(force_incident(Engine, now,
               force_incident_types[k]).E.controls) \subseteq Compliant(controls)
    /\ \A id \in AlertIdInputs :
           acknowledge_alert(Engine, id).E.controls = controls
    /\ \A D \in AnyDriftDraws, p \in TickOutcomes :
        LET E1 == monitor_checks(Engine, now, D, p[1], p[2])
        IN /\ \A c \in ControlIds :
                  TickMove(controls[c].status, E1.controls[c].status)
           /\ Compliant(E1.controls) \subseteq Compliant(controls)

C26_TickStep ==
    /\ \A c \in ControlIds :
           TickMove(controls[c].status, controls'[c].status)
    /\ Compliant(controls') \subseteq Compliant(controls)

\* C26: along a run of ticks of the periodic task alone no control's
\* status changes to compliant or to not_assessed, and the set of
\* compliant controls never grows, whatever the drift draws, the
\* simulator's choice and the point at which a tick fails.
C26_TicksNeverRestore ==
    /\ []C26_TickClosure
    /\ [][C26_TickStep]_vars

\* Ticks have taken a compliant control out of compliance.
C26_Witness ==
    /\ monitor.passes >= 1
    /\ \E c \in ControlIds, k \in 1..Len(alerts) :
           /\ alerts[k].title[1] \in {"Incident impact", "Compliance drift detected"}
           /\ alerts[k].title[2] = c
           /\ controls[c].status \in {NON_COMPLIANT, IN_PROGRESS}
    /\ audit_log = << >>

\* The control as the catalog loaded it.
SeedControl(c) ==
    IF InSeq(c, iso27001_controls)
    THEN load_iso27001_controls[c]
    ELSE load_pci_dss_controls[c]

\* C27: a successful update_status changes the status and the notes of the
\* target control and appends one audit entry, and nothing else: no alert is
\* added, no incident changes, every other control is as it was, and the
\* target keeps its last-assessment timestamp, incident_count,
\* automation_level and drift factor, also when the new status is compliant.
C27_UpdateFrame ==
    \A c \in ControlIds, st \in ComplianceStatus, n \in AnyNotes :
        LET r == update_control_status(Engine, now, c, st, n)
        IN /\ r.ret
           /\ r.E.alerts = alerts
           /\ r.E.incidents = incidents
           /\ r.E.controls =
                  [controls EXCEPT ![c] = [@ EXCEPT !.status = st, !.notes = n]]
           /\ r.E.controls[c].last_assessment_date =
                  controls[c].last_assessment_date
           /\ r.E.controls[c].incident_count = controls[c].incident_count
           /\ r.E.controls[c].automation_level = controls[c].automation_level
           /\ r.E.controls[c].compliance_drift_factor =
                  controls[c].compliance_drift_factor
           /\ Len(r.E.audit_log) = Len(audit_log) + 1

\* A control has been set to compliant by hand at a later time than its
\* last assessment, which is still the one the catalog loaded; the update
\* is the only thing that happened.
C27_Witness ==
    /\ Len(audit_log) = 1
    /\ alerts = << >>
    /\ incidents = << >>
    /\ LET e == audit_log[1]
       IN /\ e.action = "status_update"
          /\ e.new_status = COMPLIANT
          /\ e.old_status # COMPLIANT
          /\ controls[e.control_id].status = COMPLIANT
          /\ controls[e.control_id].last_assessment_date =
                 SeedControl(e.control_id).last_assessment_date
          /\ controls[e.control_id].last_assessment_date # Some(now)

====
